---- MODULE Spec2Model ----
(***************************************************************************)
(* Model of the SHL assessment recommendation service:                     *)
(*   src/query_functions.py  SHLRecommendationEngine, get_engine           *)
(*   src/main.py             the FastAPI handlers                          *)
(*                                                                         *)
(* Conventions.                                                            *)
(*   - Optional[T] is a sequence of length <= 1: None is <<>>, a value x   *)
(*     is <<x>>.                                                           *)
(*   - A text is a sequence of atoms; an atom is a word (no white space)   *)
(*     or SP, one white-space character.  "" is <<>>.                      *)
(*   - A Relevance Score is kept in tenths of a point (30.0 is 300), a     *)
(*     cosine similarity in units of 1/10000 (0.3004 is 3004).             *)
(***************************************************************************)
EXTENDS Integers, Sequences, FiniteSets, TLC

VARIABLES
    source,     \* what the catalog path holds (the CSV file, or nothing readable)
    engine,     \* the module-level engine of query_functions.py
    request,    \* the request being handled, None between requests
    response,   \* the response to it
    trace,      \* what the handler did for it: fetch, extraction, ranking
    info,       \* the outcome of the last read-only call (/health, /test-types, /stats)
    workers,    \* the worker threads: where each stands in its handler
    built,      \* how many SHLRecommendationEngine objects have been constructed
    engineId    \* which of them the module-level engine refers to (0: none)

vars == <<source, engine, request, response, trace, info, workers, built, engineId>>

----------------------------------------------------------------------------
(* Bounds of the model *)

\* Longest catalog explored (rows of the CSV file).
MaxRows == 3

\* Longest catalog explored under a header that lacks a required column.
MaxBadRows == 1

\* Largest top_k a request carries.
MaxTopK == 2

\* Worker threads serving requests at the same time.
MaxWorkers == 2

----------------------------------------------------------------------------
(* Python values *)

None == <<>>

Some(x) == <<x>>

SP == " "

\* Python truthiness of an Optional[str] / Optional[list]: None and the
\* empty value are falsy.
IsNotNone(o) == o # None

TruthySeq(o) == o # None /\ o[1] # <<>>

\* Python truthiness of an Optional[int]: None and 0 are falsy.
TruthyInt(o) == o # None /\ o[1] # 0

Min(a, b) == IF a <= b THEN a ELSE b

Max(a, b) == IF a >= b THEN a ELSE b

\* A slice that cuts nothing.
PyWhole(s, k) == s

\* seq[:k] of Python (also DataFrame.head(k)): a negative k drops the last
\* -k elements.
PyHead(s, k) ==
    IF k >= 0 THEN SubSeq(s, 1, Min(k, Len(s)))
    ELSE SubSeq(s, 1, Max(Len(s) + k, 0))

\* seq[::-1]
Reverse(s) == [i \in 1..Len(s) |-> s[Len(s) + 1 - i]]

\* str.lower() on one word.
LowerWord(a) ==
    CASE a = "Python" -> "python"
      [] a = "Coding" -> "coding"
      [] a = "Personality" -> "personality"
      [] a = "Numerical" -> "numerical"
      [] a = "Verbal" -> "verbal"
      [] a = "We" -> "we"
      [] a = "Error" -> "error"
      [] OTHER -> a

\* str.lower() on a text.
Lower(s) == [i \in 1..Len(s) |-> LowerWord(s[i])]

\* str.split(): the words of a text, white space dropped.
Split(s) == SelectSeq(s, LAMBDA a : a # SP)

\* str.join of single spaces between the words
RECURSIVE Join(_)
Join(ws) ==
    IF Len(ws) = 0 THEN <<>>
    ELSE IF Len(ws) = 1 THEN <<ws[1]>>
    ELSE <<ws[1], SP>> \o Join(Tail(ws))

\* (t in w) for two words: t occurs in w as a substring.
WordInWord(t, w) ==
    \/ t = w
    \/ t = "java" /\ w = "javascript"
    \/ t = "script" /\ w = "javascript"

\* (term in text) for a term without white space: it must lie inside one
\* word of the text.
TermInText(term, text) ==
    \E i \in 1..Len(text) : text[i] # SP /\ WordInWord(term, text[i])

\* round(n / d, 0) of Python and numpy: to the nearest integer, a tie to the
\* even one (d > 0).
RoundHalfEven(n, d) ==
    LET q == n \div d
        r == n - q * d
    IN  IF 2 * r < d THEN q
        ELSE IF 2 * r > d THEN q + 1
        ELSE IF q % 2 = 0 THEN q ELSE q + 1

\* All orderings of the elements of a set.
Perms(S) == {p \in [1..Cardinality(S) -> S] : \A i, j \in DOMAIN p : i # j => p[i] # p[j]}

----------------------------------------------------------------------------
(* The catalog *)

\* The columns the engine reads by name.
TextColumns == {"Assessment Name", "Test Type", "Skills"}

RequiredColumns == TextColumns \cup {"Duration", "Remote Testing Support", "Adaptive/IRT"}

\* A Duration cell: an integer, NaN (an empty CSV cell as read_csv gives it)
\* or '' (what fillna('') makes of NaN).
IntCell(n) == [kind |-> "int", val |-> n]

NaNCell == [kind |-> "nan", val |-> 0]

EmptyStrCell == [kind |-> "str", val |-> 0]

\* The rows the explored catalogs are made of.
RowA ==
    [Name |-> <<"Python">>, Type |-> "Coding", Skills |-> <<"python", SP, "sql">>,
     Description |-> <<>>, Duration |-> IntCell(30), Remote |-> "Yes", Adaptive |-> "No"]

RowB ==
    [Name |-> <<"javascript">>, Type |-> "Personality", Skills |-> <<"sql">>,
     Description |-> <<>>, Duration |-> IntCell(31), Remote |-> "No", Adaptive |-> "Yes"]

RowC ==
    [Name |-> <<"Verbal">>, Type |-> "Personality", Skills |-> <<>>,
     Description |-> <<"sql">>, Duration |-> NaNCell, Remote |-> "Yes", Adaptive |-> "No"]

RowPool == {RowA, RowB, RowC}

\* Every sequence of at most n distinct elements of S.
SeqsUpTo(S, n) ==
    UNION {{rs \in [1..m -> S] : \A i, j \in 1..m : i # j => rs[i] # rs[j]} : m \in 0..n}

\* What the catalog path holds when the engine is built: nothing readable,
\* or a CSV file with its header (the required columns it lacks) and rows.
Unreadable == [readable |-> FALSE, missing |-> {}, rows |-> <<>>]

CatalogSources ==
    {Unreadable}
    \cup {[readable |-> TRUE, missing |-> {}, rows |-> rs] : rs \in SeqsUpTo(RowPool, MaxRows)}
    \cup {[readable |-> TRUE, missing |-> {c}, rows |-> rs] :
            c \in RequiredColumns, rs \in SeqsUpTo(RowPool, MaxBadRows)}

\* DataFrame.fillna('') on one row: a NaN cell becomes ''.
FillNa(row) ==
    [row EXCEPT !.Duration = IF row.Duration.kind = "nan" THEN EmptyStrCell ELSE row.Duration]

\* pd.read_csv(catalog_path) followed by fillna('', inplace=True).
LoadCatalog(src) == [i \in 1..Len(src.rows) |-> FillNa(src.rows[i])]

\* f"{row['Assessment Name']} {row['Test Type']} {row['Skills']} {row.get('Description', '')}"
GetCombinedText(row) ==
    row.Name \o <<SP, row.Type, SP>> \o row.Skills \o <<SP>> \o row.Description

\* Building the combined text of a row raises KeyError when one of the three
\* columns read with row[...] is absent.
CombinedTextRaises(missing) == missing \cap TextColumns # {}

----------------------------------------------------------------------------
(* Engine construction *)

\* What the sentence-transformers library does at construction.
EncoderOutcomes == {"import_missing", "load_raises", "encode_raises", "ok"}

\* What the Gemini client does at construction.
GeminiInitOutcomes == {"import_missing", "no_api_key", "client_raises", "ok"}

\* _compute_embeddings raises: a KeyError from the first row, or the
\* encoder's own failure.
ComputeEmbeddingsRaises(catalog, missing, st) ==
    \/ Len(catalog) > 0 /\ CombinedTextRaises(missing)
    \/ st = "encode_raises"

\* _initialize_model: the pair (model, embeddings) it leaves; TRUE stands
\* for a loaded model / a computed array, FALSE for None.
InitializeModel(catalog, missing, st) ==
    IF st = "import_missing" THEN [model |-> FALSE, embeddings |-> FALSE]
    ELSE IF st = "load_raises" THEN [model |-> FALSE, embeddings |-> FALSE]
    ELSE IF ComputeEmbeddingsRaises(catalog, missing, st)
         THEN [model |-> FALSE, embeddings |-> FALSE]
    ELSE [model |-> TRUE, embeddings |-> TRUE]

\* _initialize_gemini: whether gemini_client is set.
InitializeGemini(g) == g = "ok"

\* SHLRecommendationEngine.__init__ on a readable source.
NewEngine(src, st, g) ==
    LET catalog == LoadCatalog(src)
        m == InitializeModel(catalog, src.missing, st)
    IN  [catalog |-> catalog, missing |-> src.missing,
         model |-> m.model, embeddings |-> m.embeddings,
         gemini_client |-> InitializeGemini(g)]

\* SHLRecommendationEngine(): read_csv raises on an unreadable source, and
\* nothing else in __init__ lets an exception out.
ConstructRaises(src) == ~src.readable

\* get_engine() with the catalog path holding src: the values the global
\* engine may hold after the call; None when the constructor raised.
GetEngine(eng, src) ==
    IF eng # None THEN {eng}
    ELSE {IF ConstructRaises(src) THEN None ELSE Some(NewEngine(src, st, g)) :
            st \in EncoderOutcomes, g \in GeminiInitOutcomes}

----------------------------------------------------------------------------
(* The ranker *)

\* What a step that may raise gives: its rows, or the exception.
Ok(rows) == [ok |-> TRUE, error |-> "", rows |-> rows]

Err(e) == [ok |-> FALSE, error |-> e, rows |-> <<>>]

\* What a call of the ranker gives: its rows, or the exception; with it the
\* score of every catalog row the call computed before (scores, similarities).
Ranked(rows, scores) == [ok |-> TRUE, error |-> "", rows |-> rows, scores |-> scores]

RankErr(e, scores) == [ok |-> FALSE, error |-> e, rows |-> <<>>, scores |-> scores]

\* np.argsort(scores): the index orders that sort scores ascending.  The
\* default kind is an unstable sort, so equal scores may come out in any
\* order.
ArgSorts(scores) ==
    {p \in Perms(DOMAIN scores) :
        \A i \in 1..(Len(scores) - 1) : scores[p[i]] <= scores[p[i + 1]]}

\* TopIndices without the reversal [::-1]: the lowest scores first.
TopIndicesAscending(order, top_k) == PyHead(order, top_k)

\* np.argsort(scores)[::-1][:top_k]
TopIndices(order, top_k) == PyHead(Reverse(order), top_k)

\* The cosine similarities the encoder may give, in units of 1/10000.
SimValues == {-496, 3004}

\* round(similarities[i] * 100, 1), in tenths of a point.
VectorScore(sim) == RoundHalfEven(sim, 10)

\* round((scores[i] / max_score) * 100, 1), in tenths of a point.
KeywordScore(count, max_score) == RoundHalfEven(1000 * count, max_score)

\* sum(1 for term in query_terms if term in combined)
RECURSIVE CountTerms(_, _)
CountTerms(terms, combined) ==
    IF terms = <<>> THEN 0
    ELSE (IF TermInText(Head(terms), combined) THEN 1 ELSE 0)
         + CountTerms(Tail(terms), combined)

\* max(scores) of a non-empty list.
MaxOf(scores) == CHOOSE m \in {scores[i] : i \in DOMAIN scores} :
                    \A i \in DOMAIN scores : scores[i] <= m

\* catalog.iloc[top_indices] with its 'Relevance Score' column: each row is
\* kept as its catalog index, the raw score it was ranked by and its
\* Relevance Score.
RankedRows(top, raw, score) ==
    [j \in 1..Len(top) |-> [idx |-> top[j], raw |-> raw[top[j]], score |-> score[top[j]]]]

\* _keyword_search(query, top_k): every result the call may give.
KeywordSearch(eng, query, top_k) ==
    LET catalog == eng.catalog
        query_terms == Split(Lower(query))
        scores == [i \in 1..Len(catalog) |->
                     CountTerms(query_terms, Lower(GetCombinedText(catalog[i])))]
        max_score == IF MaxOf(scores) > 0 THEN MaxOf(scores) ELSE 1
        rel == [i \in 1..Len(catalog) |-> KeywordScore(scores[i], max_score)]
    IN  IF Len(catalog) > 0 /\ CombinedTextRaises(eng.missing) THEN {RankErr("KeyError", <<>>)}
        ELSE IF Len(catalog) = 0 THEN {RankErr("ValueError", <<>>)}
        ELSE {Ranked(RankedRows(TopIndices(order, top_k), scores, rel), scores) :
                order \in ArgSorts(scores)}

\* The vector branch of semantic_search: every result it may give.  The
\* similarities come from the external encoder.  On an empty catalog the
\* shape of the embeddings array decides between an empty result and a
\* ValueError of np.dot.
VectorSearch(eng, query, top_k) ==
    LET n == Len(eng.catalog)
    IN  IF n = 0 THEN {RankErr("ValueError", <<>>), Ranked(<<>>, <<>>)}
        ELSE UNION {
               {Ranked(RankedRows(TopIndices(order, top_k), similarities,
                                  [i \in 1..n |-> VectorScore(similarities[i])]),
                       similarities) :
                  order \in ArgSorts(similarities)} :
               similarities \in [1..n -> SimValues]}

\* Which strategy semantic_search takes.
UsesKeywordSearch(eng) == ~eng.model \/ ~eng.embeddings

\* semantic_search(query, top_k)
SemanticSearch(eng, query, top_k) ==
    IF UsesKeywordSearch(eng) THEN KeywordSearch(eng, query, top_k)
    ELSE VectorSearch(eng, query, top_k)

----------------------------------------------------------------------------
(* URL fetch and requirement extraction *)

\* What extract_text_from_url returns when requests.get, raise_for_status
\* or the parser raises (a time-out included): f"Error extracting text: ..."
ErrorText == <<"Error", SP, "extracting", SP, "text:">>

\* The page texts a fetch may give.
Pages == {<<"We", SP, "need", SP, "Python", SP, "sql", SP, "python">>, <<"hello">>}

\* What the fetch of one url does: it raises, or gives a page text.
FetchOutcomes == {[raises |-> TRUE, text |-> <<>>]}
                 \cup {[raises |-> FALSE, text |-> t] : t \in Pages}

\* extract_text_from_url(url)
ExtractTextFromUrl(fetch) == IF fetch.raises THEN ErrorText ELSE fetch.text

\* extracted_text.startswith("Error")
StartsWithError(text) == Len(text) > 0 /\ text[1] = "Error"

\* A parsed JSON value as get_recommendations reads it: a dict with its
\* 'skills' and 'test_types' (a missing key reads as empty), or a value
\* that is no dict.
Dict(skills, test_types, level, pref) ==
    [kind |-> "dict", skills |-> skills, test_types |-> test_types,
     experience_level |-> level, duration_preference |-> pref]

NonDict == [kind |-> "list", skills |-> <<>>, test_types |-> <<>>,
            experience_level |-> "", duration_preference |-> ""]

\* The words of the model's vocabulary the three skill patterns match.
SkillWords == {"python", "java", "javascript", "sql"}

\* re.findall over the three patterns on text_lower: the matched words.
SkillMatches(text) ==
    LET text_lower == Lower(text)
    IN  {text_lower[i] : i \in {j \in 1..Len(text_lower) : text_lower[j] \in SkillWords}}

\* The heuristic path without set(): every match is kept, in text order.
HeuristicRequirementsKeepsDuplicates(text) ==
    {Dict(SelectSeq(Lower(text), LAMBDA a : a \in SkillWords),
          <<"Coding", "Cognitive">>, "mid", "medium")}

\* The heuristic path of extract_job_requirements: list(set(skills)) may
\* come out in any order.
HeuristicRequirements(text) ==
    {Dict(skills, <<"Coding", "Cognitive">>, "mid", "medium") :
        skills \in Perms(SkillMatches(text))}

\* What the service call does: it raises, or replies with a text.  The atoms
\* "FENCE json" and "FENCE" stand for the opening and closing lines of a
\* markdown code fence.
ReplyTexts ==
    {<<"not json">>, <<"[]">>,
     <<"FENCE json", "{skills: [java], test_types: [Personality]}", "FENCE">>,
     <<"{skills: [], test_types: [Personality]}">>}

GeminiCallOutcomes == {[raises |-> TRUE, text |-> <<>>]}
                   \cup {[raises |-> FALSE, text |-> t] : t \in ReplyTexts}

\* The two re.sub calls that drop a markdown code fence around the reply.
StripFence(text) ==
    IF Len(text) > 0 /\ text[1] = "FENCE json"
    THEN LET body == Tail(text)
         IN  IF Len(body) > 0 /\ body[Len(body)] = "FENCE"
             THEN SubSeq(body, 1, Len(body) - 1) ELSE body
    ELSE text

\* json.loads(result_text): the value, or a JSONDecodeError.
JsonLoads(text) ==
    IF text = <<"[]">> THEN [ok |-> TRUE, value |-> NonDict]
    ELSE IF text = <<"{skills: [java], test_types: [Personality]}">>
         THEN [ok |-> TRUE, value |-> Dict(<<"java">>, <<"Personality">>, "", "")]
    ELSE IF text = <<"{skills: [], test_types: [Personality]}">>
         THEN [ok |-> TRUE, value |-> Dict(<<>>, <<"Personality">>, "", "")]
    ELSE [ok |-> FALSE, value |-> NonDict]

\* extract_job_requirements(text): every (returned value, number of service
\* calls made) the call may give.  It has no path that raises.
ExtractJobRequirements(eng, text) ==
    LET heuristic == {[value |-> h, calls |-> 0, service |-> "unused"] :
                        h \in HeuristicRequirements(text)}
        after(g) ==
            IF g.raises
            THEN {[value |-> h, calls |-> 1, service |-> "raised"] :
                    h \in HeuristicRequirements(text)}
            ELSE LET parsed == JsonLoads(StripFence(g.text))
                 IN  IF parsed.ok
                     THEN {[value |-> parsed.value, calls |-> 1,
                            service |-> IF parsed.value.kind = "dict"
                                        THEN "replied" ELSE "wrong_shape"]}
                     ELSE {[value |-> h, calls |-> 1, service |-> "unparseable"] :
                             h \in HeuristicRequirements(text)}
    IN  IF eng.gemini_client THEN UNION {after(g) : g \in GeminiCallOutcomes}
        ELSE heuristic

----------------------------------------------------------------------------
(* Filters *)

\* df['Duration'].astype(int) raises ValueError on a '' cell.
AsInt(cell) == cell.val

\* filter_by_duration with the comparison < in place of <=.
FilterByDurationStrict(eng, rows, max_duration) ==
    IF "Duration" \in eng.missing THEN Err("KeyError")
    ELSE IF \E j \in 1..Len(rows) : eng.catalog[rows[j].idx].Duration.kind # "int"
         THEN Err("ValueError")
    ELSE Ok(SelectSeq(rows, LAMBDA r : AsInt(eng.catalog[r.idx].Duration) < max_duration))

\* filter_by_duration(df, max_duration)
FilterByDuration(eng, rows, max_duration) ==
    IF "Duration" \in eng.missing THEN Err("KeyError")
    ELSE IF \E j \in 1..Len(rows) : eng.catalog[rows[j].idx].Duration.kind # "int"
         THEN Err("ValueError")
    ELSE Ok(SelectSeq(rows, LAMBDA r : AsInt(eng.catalog[r.idx].Duration) <= max_duration))

\* filter_by_test_type that selects from the whole catalog, not from the
\* candidates it is given.
FilterByTestTypeOfCatalog(eng, rows, test_types) ==
    Ok(SelectSeq([i \in 1..Len(eng.catalog) |-> [idx |-> i, raw |-> 0, score |-> 0]],
                 LAMBDA r : \E t \in 1..Len(test_types) :
                                eng.catalog[r.idx].Type = test_types[t]))

\* filter_by_test_type that keeps every row.
FilterByTestTypeKeepsAll(eng, rows, test_types) == Ok(rows)

\* filter_by_test_type(df, test_types)
FilterByTestType(eng, rows, test_types) ==
    IF test_types = <<>> THEN Ok(rows)
    ELSE IF "Test Type" \in eng.missing THEN Err("KeyError")
    ELSE Ok(SelectSeq(rows, LAMBDA r :
                \E t \in 1..Len(test_types) : eng.catalog[r.idx].Type = test_types[t]))

\* filter_by_remote that keeps every row.
FilterByRemoteKeepsAll(eng, rows, remote_only) == Ok(rows)

\* filter_by_remote(df, remote_only)
FilterByRemote(eng, rows, remote_only) ==
    IF ~remote_only THEN Ok(rows)
    ELSE IF "Remote Testing Support" \in eng.missing THEN Err("KeyError")
    ELSE Ok(SelectSeq(rows, LAMBDA r : eng.catalog[r.idx].Remote = "Yes"))

----------------------------------------------------------------------------
(* The read-only calls: get_test_types, get_catalog_stats *)

\* What a read-only call gives: its value, or the exception.
Value(v) == [ok |-> TRUE, error |-> "", value |-> v]

Raised(e) == [ok |-> FALSE, error |-> e, value |-> <<>>]

\* sorted(...) over the Test Type values the explored catalogs hold.
SortedTypes(types) == SelectSeq(<<"Coding", "Personality">>, LAMBDA t : t \in types)

\* get_test_types(): sorted(self.catalog['Test Type'].unique().tolist())
GetTestTypes(eng) ==
    IF "Test Type" \in eng.missing THEN Raised("KeyError")
    ELSE Value(SortedTypes({eng.catalog[i].Type : i \in 1..Len(eng.catalog)}))

RECURSIVE SumDurations(_)
\* The sum of an integer Duration column.
SumDurations(rows) ==
    IF rows = <<>> THEN 0 ELSE AsInt(Head(rows).Duration) + SumDurations(Tail(rows))

\* round(self.catalog['Duration'].astype(int).mean(), 1) in tenths of a
\* minute; None stands for nan, the mean of no value at all.
AvgDuration(catalog) ==
    IF Len(catalog) = 0 THEN None
    ELSE Some(RoundHalfEven(10 * SumDurations(catalog), Len(catalog)))

\* get_catalog_stats()
GetCatalogStats(eng) ==
    LET n == Len(eng.catalog)
        count(P(_)) == Cardinality({i \in 1..n : P(eng.catalog[i])})
        isRemote(row) == row.Remote = "Yes"
        isAdaptive(row) == row.Adaptive = "Yes"
    IN  IF eng.missing \cap {"Test Type", "Duration", "Remote Testing Support",
                              "Adaptive/IRT"} # {}
        THEN Raised("KeyError")
        ELSE IF \E i \in 1..n : eng.catalog[i].Duration.kind # "int"
             THEN Raised("ValueError")
        ELSE Value([total_assessments |-> n,
                    test_types |-> {[type |-> t,
                                     count |-> Cardinality({i \in 1..n :
                                                             eng.catalog[i].Type = t})] :
                                    t \in {eng.catalog[i].Type : i \in 1..n}},
                    avg_duration |-> AvgDuration(eng.catalog),
                    remote_supported |-> count(isRemote),
                    adaptive_tests |-> count(isAdaptive)])

----------------------------------------------------------------------------
(* get_recommendations *)

\* The cap on the candidates asked of the ranker: min(top_k * 2, 50).
OversampleFactor == 2

OversampleCap == 50

\* The HTTP responses.  A 200 response carries the dict get_recommendations
\* returns; an exception that leaves a handler is a 500.
Response200TotalUnset(rows, job_requirements, search_query) ==
    [status |-> 200, error |-> "", recommendations |-> rows,
     job_requirements |-> job_requirements, search_query |-> search_query,
     total_found |-> 0]

Response200(rows, job_requirements, search_query) ==
    [status |-> 200, error |-> "", recommendations |-> rows,
     job_requirements |-> job_requirements, search_query |-> search_query,
     total_found |-> Len(rows)]

ResponseError(status, error) ==
    [status |-> status, error |-> error, recommendations |-> <<>>,
     job_requirements |-> None, search_query |-> None, total_found |-> 0]

\* What one request did on its way: the fetch, the extraction, and the call
\* of the ranker with its result.
NoTrace ==
    [engine_called |-> FALSE, fetch |-> "none", text |-> None, extract |-> None,
     strategy |-> "none", requested |-> None, ranked |-> None]

\* Lines 186-187: search_query, job_requirements and test_types before the
\* url branch.
EnrichBase(req) ==
    [raised |-> FALSE, search_query |-> req.query, job_requirements |-> None,
     test_types |-> req.test_types, fetch |-> "none", text |-> None, extract |-> None]

\* The requirements are recorded and the search query is left as it was.
SteerKeepsQuery(req, text, x) ==
    [EnrichBase(req) EXCEPT !.fetch = "ok", !.text = Some(text), !.extract = Some(x),
                            !.job_requirements = Some(x.value),
                            !.raised = x.value.kind # "dict"]

\* Lines 192-196: what the requirements x extracted from the page text make
\* of the search query and of the test types; job_requirements.get raises
\* when the value is no dict.
Steer(req, text, x) ==
    LET jr == x.value
        seen == [EnrichBase(req) EXCEPT !.fetch = "ok", !.text = Some(text),
                                        !.extract = Some(x),
                                        !.job_requirements = Some(jr)]
    IN  IF jr.kind # "dict" THEN [seen EXCEPT !.raised = TRUE]
        ELSE IF jr.skills # <<>>
             THEN [seen EXCEPT
                     !.search_query = Some(Join(jr.skills)),
                     !.test_types =
                         IF jr.test_types # <<>> /\ ~TruthySeq(req.test_types)
                         THEN Some(jr.test_types) ELSE req.test_types]
        ELSE seen

\* Lines 186-196: search_query, job_requirements and test_types after the
\* url branch, for every outcome of the fetch and of the extraction.
Enrich(eng, req) ==
    LET base == EnrichBase(req)
        withText(text) == {Steer(req, text, x) : x \in ExtractJobRequirements(eng, text)}
        afterFetch(f) ==
            LET extracted_text == ExtractTextFromUrl(f)
            IN  IF StartsWithError(extracted_text)
                THEN {[base EXCEPT !.fetch = IF f.raises THEN "raised" ELSE "ok"]}
                ELSE withText(extracted_text)
    IN  IF TruthySeq(req.url) THEN UNION {afterFetch(f) : f \in FetchOutcomes}
        ELSE {base}

\* The selection of the candidates made on self.catalog itself: the catalog
\* is left holding the selected rows.
CatalogWrittenInPlace(catalog, scored) ==
    [j \in 1..Len(scored) |-> catalog[scored[j].idx]]

\* The candidates are a frame of their own: .copy() at lines 143, 158 and
\* 199, and the Relevance Score column is assigned to that copy.  What
\* self.catalog holds after the assignment.
CatalogAfterScoring(catalog, scored) == catalog

\* Lines 198-202: the candidates, for every outcome of the ranker.
Candidates(eng, search_query, top_k) ==
    IF ~TruthySeq(search_query)
    THEN {[strategy |-> "head", requested |-> None,
           ranked |-> Ranked([j \in 1..Len(PyHead(eng.catalog, top_k)) |->
                                [idx |-> j, raw |-> 0, score |-> 1000]], <<>>)]}
    ELSE LET k == Min(top_k * OversampleFactor, OversampleCap)
         IN  {[strategy |-> IF UsesKeywordSearch(eng) THEN "keyword" ELSE "vector",
               requested |-> Some(k), ranked |-> r] :
                r \in SemanticSearch(eng, search_query[1], k)}

\* Lines 204-211: the three filters, each under its guard, then head(top_k).
ApplyFilters(eng, ranked, max_duration, test_types, remote_only, top_k) ==
    LET d == IF ~ranked.ok THEN Err(ranked.error)
             ELSE IF TruthyInt(max_duration)
                  THEN FilterByDuration(eng, ranked.rows, max_duration[1])
             ELSE Ok(ranked.rows)
        t == IF ~d.ok THEN d
             ELSE IF TruthySeq(test_types) THEN FilterByTestType(eng, d.rows, test_types[1])
             ELSE d
        r == IF ~t.ok THEN t
             ELSE IF remote_only THEN FilterByRemote(eng, t.rows, remote_only)
             ELSE t
    IN  IF ~r.ok THEN r ELSE Ok(PyHead(r.rows, top_k))

\* get_recommendations(query, url, max_duration, test_types, remote_only,
\* top_k): every (response, trace) the call may give, with the catalog the
\* engine holds when the call is over.
GetRecommendations(eng, req) ==
    UNION {
      IF e.raised
      THEN {[response |-> ResponseError(500, "AttributeError"),
             catalog |-> eng.catalog,
             trace |-> [NoTrace EXCEPT !.engine_called = TRUE, !.fetch = e.fetch,
                                       !.text = e.text, !.extract = e.extract]]}
      ELSE {LET out == ApplyFilters(eng, c.ranked, req.max_duration, e.test_types,
                                    req.remote_only, req.top_k)
                tr == [engine_called |-> TRUE, fetch |-> e.fetch, text |-> e.text,
                       extract |-> e.extract, strategy |-> c.strategy,
                       requested |-> c.requested, ranked |-> Some(c.ranked)]
            IN  [response |-> IF out.ok
                              THEN Response200(out.rows, e.job_requirements, e.search_query)
                              ELSE ResponseError(500, out.error),
                 catalog |-> IF c.ranked.ok
                             THEN CatalogAfterScoring(eng.catalog, c.ranked.rows)
                             ELSE eng.catalog,
                 trace |-> tr]
            : c \in Candidates(eng, e.search_query, req.top_k)}
      : e \in Enrich(eng, req)}

----------------------------------------------------------------------------
(* The HTTP handlers of main.py *)

Queries == {None, Some(<<>>), Some(<<SP>>), Some(<<"Python", SP, "sql">>)}

Urls == {None, Some(<<"http://job">>)}

MaxDurations == {None, Some(0), Some(30)}

TestTypeLists == {None, Some(<<>>), Some(<<"Coding">>)}

\* top_k is any integer: the small ones, and one beyond the cap on the
\* candidates.
TopKs == (-1..MaxTopK) \cup {OversampleCap + 1}

Requests ==
    [query : Queries, url : Urls, max_duration : MaxDurations,
     test_types : TestTypeLists, remote_only : BOOLEAN, top_k : TopKs]

\* The guard written with "is None": an empty string passes it.
RejectedOnlyNone(req) == req.query = None /\ req.url = None

\* The guard of the /recommend handler: not request.query and not request.url
Rejected(req) == ~TruthySeq(req.query) /\ ~TruthySeq(req.url)

\* A worker thread of the server: where it stands in its handler (pc), the
\* handler it runs (op), the engine object get_engine() returned to it
\* (inst, 0 before that) and whether that object has a Gemini client.
IdleWorker == [pc |-> "idle", op |-> "none", inst |-> 0, gemini |-> FALSE]

Workers == 1..MaxWorkers

Init ==
    /\ source \in CatalogSources
    /\ engine = None
    /\ request = None
    /\ response = None
    /\ trace = NoTrace
    /\ info = None
    /\ workers = [t \in Workers |-> IdleWorker]
    /\ built = 0
    /\ engineId = 0

\* get_engine() run from its first line to its last without another thread
\* in between: the global is assigned e, the object just constructed if
\* there was none.
Publish(e) ==
    /\ engine' = e
    /\ built' = IF engine = None /\ e # None THEN built + 1 ELSE built
    /\ engineId' = IF engine = None /\ e # None THEN built + 1 ELSE engineId

\* POST /recommend, from the request's arrival to the handler's return (or
\* to the exception that leaves it).
Recommend ==
    /\ request = None /\ info = None
    /\ \E req \in Requests :
        /\ request' = Some(req)
        /\ IF Rejected(req)
           THEN /\ response' = Some(ResponseError(400, "Either 'query' or 'url' must be provided"))
                /\ trace' = NoTrace
                /\ UNCHANGED <<engine, built, engineId>>
           ELSE \E e \in GetEngine(engine, source) :
                  IF e = None
                  THEN /\ response' = Some(ResponseError(500, "LoadError"))
                       /\ trace' = NoTrace
                       /\ Publish(e)
                  ELSE \E out \in GetRecommendations(e[1], req) :
                         /\ response' = Some(out.response)
                         /\ trace' = out.trace
                         /\ Publish(Some([e[1] EXCEPT !.catalog = out.catalog]))
    /\ UNCHANGED <<source, info, workers>>

\* The response has gone out: the request's own state is dropped, the
\* module-level engine stays.
Finish ==
    /\ request # None \/ info # None
    /\ request' = None
    /\ response' = None
    /\ trace' = NoTrace
    /\ info' = None
    /\ UNCHANGED <<source, engine, workers, built, engineId>>

\* What /health answers from the engine.
Health(eng) ==
    LET stats == GetCatalogStats(eng)
    IN  IF ~stats.ok THEN stats
        ELSE Value([status |-> "healthy",
                    catalog_size |-> stats.value.total_assessments,
                    ai_enabled |-> eng.gemini_client])

\* The call a read-only handler makes on the engine.
CallOf(op, eng) ==
    CASE op = "health" -> Health(eng)
      [] op = "test-types" -> GetTestTypes(eng)
      [] op = "stats" -> GetCatalogStats(eng)

\* A read-only handler: get_engine(), then one call on the engine.
ReadOnly(op) ==
    /\ request = None /\ info = None
    /\ \E e \in GetEngine(engine, source) :
        /\ Publish(e)
        /\ info' = Some([op |-> op,
                         result |-> IF e = None THEN Raised("LoadError")
                                    ELSE CallOf(op, e[1])])
    /\ UNCHANGED <<source, request, response, trace, workers>>

\* GET /health
HealthCheck == ReadOnly("health")

\* GET /test-types
TestTypes == ReadOnly("test-types")

\* GET /stats
Stats == ReadOnly("stats")

Next == Recommend \/ Finish \/ HealthCheck \/ TestTypes \/ Stats

Spec == Init /\ [][Next]_vars

----------------------------------------------------------------------------
(* The handlers run by concurrent worker threads.  The handlers of main.py
   are plain functions, which the server runs on a pool of threads; a
   thread may be suspended between any two steps below. *)

\* The handlers a worker may run: /recommend with a url, /recommend with a
\* query only, and the read-only ones.
Ops == {"recommend_url", "recommend_query", "read"}

\* A request arrives at an idle worker and passes the handler's own checks.
Arrive(t) ==
    /\ workers[t].pc = "idle"
    /\ \E op \in Ops : workers' = [workers EXCEPT ![t] = [IdleWorker EXCEPT !.pc = "get_engine",
                                                                            !.op = op]]
    /\ UNCHANGED <<source, engine, request, response, trace, info, built, engineId>>

\* get_engine(), line 237: if engine is None
CheckEngine(t) ==
    /\ workers[t].pc = "get_engine"
    /\ workers' = [workers EXCEPT ![t].pc = IF engine = None THEN "construct" ELSE "return"]
    /\ UNCHANGED <<source, engine, request, response, trace, info, built, engineId>>

\* get_engine(), line 238: engine = SHLRecommendationEngine(); the
\* constructor raises on an unreadable source and the handler fails.
Construct(t) ==
    /\ workers[t].pc = "construct"
    /\ IF ConstructRaises(source)
       THEN /\ workers' = [workers EXCEPT ![t].pc = "done"]
            /\ UNCHANGED <<engine, built, engineId>>
       ELSE /\ \E st \in EncoderOutcomes, g \in GeminiInitOutcomes :
                 engine' = Some(NewEngine(source, st, g))
            /\ built' = built + 1
            /\ engineId' = built + 1
            /\ workers' = [workers EXCEPT ![t].pc = "return"]
    /\ UNCHANGED <<source, request, response, trace, info>>

\* get_engine(), line 239: return engine, the object the global holds now.
ReturnEngine(t) ==
    /\ workers[t].pc = "return"
    /\ workers' = [workers EXCEPT
                     ![t].inst = engineId,
                     ![t].gemini = engine[1].gemini_client,
                     ![t].pc = IF workers[t].op = "recommend_url" THEN "fetch" ELSE "serve"]
    /\ UNCHANGED <<source, engine, request, response, trace, info, built, engineId>>

\* extract_text_from_url: requests.get answers (a page or an error) or
\* raises at once; with a page text the requirements are extracted next.
FetchAnswers(t) ==
    /\ workers[t].pc = "fetch"
    /\ \E f \in FetchOutcomes :
         workers' = [workers EXCEPT ![t].pc =
                       IF StartsWithError(ExtractTextFromUrl(f)) THEN "serve"
                       ELSE IF workers[t].gemini THEN "call_service" ELSE "serve"]
    /\ UNCHANGED <<source, engine, request, response, trace, info, built, engineId>>

\* extract_text_from_url: nothing came within timeout=10, requests.get
\* raises and the except clause returns the error text.
FetchTimesOut(t) ==
    /\ workers[t].pc = "fetch"
    /\ workers' = [workers EXCEPT ![t].pc = "serve"]
    /\ UNCHANGED <<source, engine, request, response, trace, info, built, engineId>>

\* extract_job_requirements: generate_content returns or raises; either
\* way the function returns (the reply's value or the heuristic one).  The
\* call is made without a timeout: no other step leaves "call_service".
ServiceAnswers(t) ==
    /\ workers[t].pc = "call_service"
    /\ workers' = [workers EXCEPT ![t].pc = "serve"]
    /\ UNCHANGED <<source, engine, request, response, trace, info, built, engineId>>

\* The rest of the handler, on the engine object the worker holds: ranking,
\* filters (or the read-only call); the response is ready.
Serve(t) ==
    /\ workers[t].pc = "serve"
    /\ workers' = [workers EXCEPT ![t].pc = "done"]
    /\ UNCHANGED <<source, engine, request, response, trace, info, built, engineId>>

\* The response (or the error) has gone out; the worker is free again.
Leave(t) ==
    /\ workers[t].pc = "done"
    /\ workers' = [workers EXCEPT ![t] = IdleWorker]
    /\ UNCHANGED <<source, engine, request, response, trace, info, built, engineId>>

WorkerStep(t) ==
    \/ Arrive(t) \/ CheckEngine(t) \/ Construct(t) \/ ReturnEngine(t)
    \/ FetchAnswers(t) \/ FetchTimesOut(t) \/ ServiceAnswers(t)
    \/ Serve(t) \/ Leave(t)

ThreadNext == \E t \in Workers : WorkerStep(t)

ThreadSpec == Init /\ [][ThreadNext]_vars

\* What the threads and the library guarantee: a running thread goes on, and
\* requests.get gives up after its timeout.  Nothing makes a request arrive,
\* and nothing makes the page or the extraction service answer.
ThreadFairness ==
    \A t \in Workers :
        /\ WF_vars(CheckEngine(t)) /\ WF_vars(Construct(t)) /\ WF_vars(ReturnEngine(t))
        /\ WF_vars(FetchTimesOut(t)) /\ WF_vars(Serve(t)) /\ WF_vars(Leave(t))

FairThreadSpec == ThreadSpec /\ ThreadFairness

----------------------------------------------------------------------------
(* Properties *)

\* The rows' Relevance Scores never go up from one row to the next.
ScoresNonIncreasing(rows) ==
    \A i \in 1..(Len(rows) - 1) : rows[i].score >= rows[i + 1].score

\* The ranker was called (one strategy or the other) for the request.
RankerCalled == trace.ranked # None /\ trace.strategy \in {"keyword", "vector"}

\* C1: the Relevance Scores are non-increasing from the first result to the
\* last, in what the ranker returns (either strategy) and in the
\* recommendations of every successful response.
C1_ScoresNonIncreasing ==
    /\ (trace.ranked # None /\ trace.ranked[1].ok)
         => ScoresNonIncreasing(trace.ranked[1].rows)
    /\ (response # None /\ response[1].status = 200)
         => ScoresNonIncreasing(response[1].recommendations)

\* C1 witness: a successful response of the vector strategy whose
\* recommendations carry two different scores.
C1_Witness ==
    /\ response # None /\ response[1].status = 200
    /\ trace.strategy = "vector"
    /\ Len(response[1].recommendations) >= 2
    /\ response[1].recommendations[1].score
         > response[1].recommendations[Len(response[1].recommendations)].score

\* C2: a call of the ranker with top_k = k >= 0 on a catalog of N rows with
\* all its columns returns exactly min(k, N) rows, each a distinct row of the
\* catalog.
C2_RankerReturnsMinKN ==
    (engine # None /\ engine[1].missing = {} /\ RankerCalled /\ trace.requested[1] >= 0)
      => LET r == trace.ranked[1]
             n == Len(engine[1].catalog)
         IN  /\ r.ok
             /\ Len(r.rows) = Min(trace.requested[1], n)
             /\ \A i \in 1..Len(r.rows) : r.rows[i].idx \in 1..n
             /\ \A i, j \in 1..Len(r.rows) : i # j => r.rows[i].idx # r.rows[j].idx

\* C3: every recommendation of a successful response passes all the filters
\* the caller supplied: duration <= max_duration (max_duration >= 1), Test
\* Type among test_types (a non-empty list), Remote Testing Support = 'Yes'
\* (remote_only).
C3_FiltersConjunctive ==
    (response # None /\ response[1].status = 200)
      => \A i \in 1..Len(response[1].recommendations) :
           LET row == engine[1].catalog[response[1].recommendations[i].idx]
               req == request[1]
           IN  /\ (req.max_duration # None /\ req.max_duration[1] >= 1)
                    => (row.Duration.kind = "int" /\ row.Duration.val <= req.max_duration[1])
               /\ (req.test_types # None /\ req.test_types[1] # <<>>)
                    => (\E t \in 1..Len(req.test_types[1]) : row.Type = req.test_types[1][t])
               /\ req.remote_only => row.Remote = "Yes"

\* C3 witness: a successful response to a request with the three filters at
\* once, which kept a candidate and removed another.
C3_Witness ==
    /\ response # None /\ response[1].status = 200
    /\ request[1].max_duration # None /\ request[1].max_duration[1] >= 1
    /\ request[1].test_types # None /\ request[1].test_types[1] # <<>>
    /\ request[1].remote_only
    /\ request[1].top_k >= 2
    /\ Len(response[1].recommendations) >= 1
    /\ Len(trace.ranked[1].rows) > Len(response[1].recommendations)

\* C4: every Relevance Score the ranker returns, in either strategy, lies in
\* [0, 100].
C4_ScoresInRange ==
    (RankerCalled /\ trace.ranked[1].ok)
      => \A i \in 1..Len(trace.ranked[1].rows) :
           trace.ranked[1].rows[i].score >= 0 /\ trace.ranked[1].rows[i].score <= 1000

\* C5: rows that received the same score are returned in catalog order, and
\* when such a tie straddles the top_k cut the rows with the smaller catalog
\* index are the ones kept.
C5_TiesInCatalogOrder ==
    (RankerCalled /\ trace.ranked[1].ok)
      => LET rows == trace.ranked[1].rows
             scores == trace.ranked[1].scores
             returned == {rows[i].idx : i \in 1..Len(rows)}
         IN  /\ \A i, j \in 1..Len(rows) :
                   (i < j /\ rows[i].raw = rows[j].raw) => rows[i].idx < rows[j].idx
             /\ \A i \in 1..Len(rows) : \A m \in (DOMAIN scores) \ returned :
                   scores[m] = rows[i].raw => m > rows[i].idx

\* Neither query nor url is supplied: each is absent or empty.
NeitherSupplied(req) ==
    /\ req.query = None \/ req.query = Some(<<>>)
    /\ req.url = None \/ req.url = Some(<<>>)

\* C6: a /recommend request with neither query nor url is answered 400, and
\* nothing of the engine runs for it: the engine is not built, no fetch, no
\* extraction, no ranking.
C6_RejectedNotProcessed ==
    [][(request = None /\ request' # None /\ NeitherSupplied(request'[1]))
         => (/\ response'[1].status = 400
             /\ engine' = engine
             /\ trace' = NoTrace)]_vars

\* C6 witness: a rejected request, answered 400 while no engine exists.
C6_Witness ==
    /\ request # None /\ NeitherSupplied(request[1])
    /\ response[1].status = 400
    /\ engine = None

\* The fetch or the extraction service failed for the request: the fetch
\* raised, or the service raised, or its reply was unparseable or not of the
\* QueryRequirements shape.
EnrichmentFailed ==
    \/ trace.fetch = "raised"
    \/ trace.extract # None
         /\ trace.extract[1].service \in {"raised", "unparseable", "wrong_shape"}

\* C7: a failure of the fetch or of the extraction service never makes the
\* request fail: get_recommendations goes on to its candidates (and returns
\* its normal response unless the ranking itself fails).
C7_EnrichmentFailureNotFatal ==
    (response # None /\ EnrichmentFailed)
      => (response[1].status = 200 \/ trace.ranked # None)

\* C8: extract_job_requirements calls the service at most once, and when the
\* call raises or the reply is not of the QueryRequirements shape it returns
\* the heuristic result for the same text.
C8_ExtractionFallsBackToHeuristic ==
    trace.extract # None
      => /\ trace.extract[1].calls <= 1
         /\ trace.extract[1].service \in {"raised", "unparseable", "wrong_shape"}
              => trace.extract[1].value \in HeuristicRequirements(trace.text[1])

\* C9: an engine whose encoder failed to initialise has model and index
\* unset, and every rank request to it is answered by the lexical fallback
\* with rows, not with an error.
C9_FallbackAnswersEveryRankRequest ==
    (engine # None /\ ~engine[1].model)
      => /\ ~engine[1].embeddings
         /\ RankerCalled => (trace.strategy = "keyword" /\ trace.ranked[1].ok)

\* C10: no engine is published from a catalog source that lacks a required
\* column, so no request is answered from one.
C10_NoEngineFromMalformedCatalog ==
    /\ (~source.readable \/ source.missing # {}) => engine = None
    /\ (response # None /\ response[1].status = 200) => source.missing = {}

\* C12: once the engine exists no request changes it: after every request
\* (get_recommendations with its ranking and filters, get_test_types,
\* get_catalog_stats) the catalog rows, their order, their columns and the
\* index are what they were before it, namely what construction loaded from
\* the source, so an earlier request leaves nothing a later one could see.
C12_RequestsLeaveEngineUnchanged ==
    [][/\ engine # None => engine' = engine
       /\ engine' # None => /\ engine'[1].catalog = LoadCatalog(source)
                            /\ engine'[1].missing = source.missing]_vars

\* C12 witness: a request was answered with ranked rows by an engine that
\* still holds the catalog as loaded.
C12_Witness ==
    /\ engine # None /\ engine[1].catalog = LoadCatalog(source)
    /\ response # None /\ response[1].status = 200
    /\ RankerCalled
    /\ Len(response[1].recommendations) >= 2

\* The recommendations get_recommendations returns for req when the fetch,
\* the extraction and the ranking come out as they did for the request at
\* hand (none when the call fails), with their number and with the category
\* filter in force for req.
RowsGiven(req) ==
    {LET e == IF trace.extract = None THEN EnrichBase(req)
              ELSE Steer(req, trace.text[1], trace.extract[1])
         out == IF e.raised THEN Err("AttributeError")
                ELSE ApplyFilters(engine[1], trace.ranked[1], req.max_duration,
                                  e.test_types, req.remote_only, req.top_k)
     IN  [test_types |-> e.test_types, rows |-> out.rows, count |-> Len(out.rows)]}

\* The request at hand with one of its filters taken away.
WithoutDuration(req) == [req EXCEPT !.max_duration = None]

WithoutTestTypes(req) == [req EXCEPT !.test_types = None]

WithoutRemote(req) == [req EXCEPT !.remote_only = FALSE]

\* The request at hand went through get_recommendations up to its candidates.
Assembled == request # None /\ response # None /\ trace.engine_called /\ trace.ranked # None

\* C13 as stated: a request never returns more recommendations than the
\* same request without one of its filters (max_duration, test_types or
\* remote_only), on the query path and on the url path.
C13_FilterNeverAddsResults ==
    Assembled
      => \A r0 \in {WithoutDuration(request[1]), WithoutTestTypes(request[1]),
                     WithoutRemote(request[1])} :
           \A c \in RowsGiven(r0) : Len(response[1].recommendations) <= c.count

\* C13 amended: the same, except that for test_types it holds only when the
\* request without them is not filtered by the categories the extraction
\* suggested: the caller's test_types replace a suggested set, they are not
\* added to it.
C13_FilterNeverAddsResultsUnlessSuggested ==
    Assembled
      => /\ \A r0 \in {WithoutDuration(request[1]), WithoutRemote(request[1])} :
              \A c \in RowsGiven(r0) : Len(response[1].recommendations) <= c.count
         /\ \A c \in RowsGiven(WithoutTestTypes(request[1])) :
              ~TruthySeq(c.test_types) => Len(response[1].recommendations) <= c.count

\* C13 witness: a url request whose page was fetched, answered with fewer
\* recommendations than it would have had without its remote_only filter.
C13_Witness ==
    /\ Assembled /\ response[1].status = 200
    /\ request[1].url # None /\ trace.text # None
    /\ request[1].remote_only
    /\ Len(response[1].recommendations) >= 1
    /\ \E c \in RowsGiven(WithoutRemote(request[1])) :
          Len(response[1].recommendations) < c.count

\* The Duration of the catalog row a candidate stands for.
DurationOf(r) == engine[1].catalog[r.idx].Duration

\* C14: when the duration filter is applied to the candidates and returns,
\* it keeps every candidate whose Duration equals max_duration and removes
\* every candidate whose Duration is max_duration + 1; no recommendation of
\* the response has Duration max_duration + 1.
C14_DurationInclusive ==
    (Assembled /\ trace.ranked[1].ok /\ TruthyInt(request[1].max_duration))
      => LET d == request[1].max_duration[1]
             rows == trace.ranked[1].rows
             kept == FilterByDuration(engine[1], rows, d)
             recs == response[1].recommendations
         IN  /\ kept.ok
                  => \A j \in 1..Len(rows) :
                       /\ DurationOf(rows[j]) = IntCell(d)
                            => \E i \in 1..Len(kept.rows) : kept.rows[i] = rows[j]
                       /\ DurationOf(rows[j]) = IntCell(d + 1)
                            => \A i \in 1..Len(kept.rows) : kept.rows[i] # rows[j]
             /\ response[1].status = 200
                  => /\ \A i \in 1..Len(recs) : DurationOf(recs[i]) # IntCell(d + 1)
                     /\ (~TruthySeq(request[1].test_types) /\ ~request[1].remote_only
                          /\ request[1].url = None /\ Len(rows) <= request[1].top_k)
                          => \A j \in 1..Len(rows) :
                               DurationOf(rows[j]) = IntCell(d)
                                 => \E i \in 1..Len(recs) : recs[i] = rows[j]

\* C14 witness: max_duration = 30 with a 30-minute and a 31-minute
\* candidate: the response holds the first and not the second.
C14_Witness ==
    /\ Assembled /\ response[1].status = 200
    /\ request[1].max_duration = Some(30)
    /\ \E j \in 1..Len(trace.ranked[1].rows) :
          DurationOf(trace.ranked[1].rows[j]) = IntCell(31)
    /\ \E i \in 1..Len(response[1].recommendations) :
          DurationOf(response[1].recommendations[i]) = IntCell(30)

\* The Test Type of the catalog row a candidate stands for.
TypeOf(r) == engine[1].catalog[r.idx].Type

\* C15: when the extraction gave a non-empty test_types list and the caller
\* gave no test_types, every recommendation has a Test Type of the suggested
\* list, whether the extracted skills are empty or not.
C15_SuggestedCategoriesApplied ==
    (/\ Assembled /\ response[1].status = 200
     /\ trace.extract # None /\ trace.extract[1].value.kind = "dict"
     /\ trace.extract[1].value.test_types # <<>>
     /\ ~TruthySeq(request[1].test_types))
      => \A i \in 1..Len(response[1].recommendations) :
           \E t \in 1..Len(trace.extract[1].value.test_types) :
             TypeOf(response[1].recommendations[i]) = trace.extract[1].value.test_types[t]

C17_CandidatesAtLeastTopK ==
    (request # None /\ RankerCalled /\ request[1].top_k >= 1)
      => /\ trace.requested[1]
              = Max(Min(request[1].top_k * OversampleFactor, OversampleCap), request[1].top_k)
         /\ trace.requested[1] >= request[1].top_k

\* C18: a request with a search query on a catalog of zero rows (all
\* columns present) is answered with no recommendation and total_found = 0,
\* without error, in the vector strategy and in the keyword fallback.
C18_EmptyCatalogNoError ==
    (/\ engine # None /\ engine[1].missing = {} /\ Len(engine[1].catalog) = 0
     /\ response # None /\ RankerCalled)
      => /\ trace.ranked[1].ok
         /\ response[1].status = 200
         /\ response[1].recommendations = <<>>
         /\ response[1].total_found = 0

\* C19: a source row without a Duration value is loaded with Duration 0, and
\* neither the duration filter nor get_catalog_stats raises on the catalog
\* (all columns present).
C19_MissingDurationLoadedAsZero ==
    (engine # None /\ engine[1].missing = {})
      => /\ \A i \in 1..Len(engine[1].catalog) :
              /\ engine[1].catalog[i].Duration.kind = "int"
              /\ source.rows[i].Duration = NaNCell
                   => engine[1].catalog[i].Duration = IntCell(0)
         /\ (Assembled /\ trace.ranked[1].ok /\ TruthyInt(request[1].max_duration))
              => FilterByDuration(engine[1], trace.ranked[1].rows,
                                  request[1].max_duration[1]).ok
         /\ (info # None /\ info[1].op = "stats") => info[1].result.ok

\* C11: under any interleaving of the worker threads the engine is
\* constructed at most once, and every worker that got an engine from
\* get_engine() holds that one object, the one the global refers to.
C11_EngineBuiltOnce ==
    /\ built <= 1
    /\ \A t \in Workers : workers[t].inst # 0 => workers[t].inst = engineId

\* C20: every request a worker took up is eventually answered, whether or
\* not the page or the extraction service ever answers.
C20_EveryRequestAnswered ==
    \A t \in Workers : (workers[t].pc # "idle") ~> (workers[t].pc = "done")

\* The engine at hand with its model and index the other way round: unset
\* if they are loaded, loaded if they are unset.
OtherModel(eng) == [eng EXCEPT !.model = ~eng.model, !.embeddings = ~eng.model]

\* C21: what /health reports differs between an engine whose model loaded
\* and the same engine whose model failed to load.
C21_HealthShowsFallback ==
    (info # None /\ info[1].op = "health" /\ engine # None)
      => /\ info[1].result = Health(engine[1])
         /\ Health(engine[1]) # Health(OtherModel(engine[1]))

\* The search query the request at hand went to its candidates with.
SearchQueryOf ==
    IF trace.extract = None THEN request[1].query
    ELSE Steer(request[1], trace.text[1], trace.extract[1]).search_query

\* How many tokens of the query occur in the combined text of a row.
TokenCount(tokens, row) ==
    Cardinality({k \in 1..Len(tokens) :
                   TermInText(tokens[k], Lower(GetCombinedText(row)))})

\* C22: in the keyword fallback (catalog with all its columns) the score of
\* each returned row is 100 * c / m rounded to one decimal, c the number of
\* lower-cased query tokens found in the row's lower-cased combined text, m
\* the largest c of the catalog or 1 when that is 0; a query without tokens
\* gives score 0 for every row, and no error.
C22_KeywordScoreFormula ==
    (request # None /\ RankerCalled /\ trace.strategy = "keyword"
       /\ engine[1].missing = {})
      => LET tokens == Split(Lower(SearchQueryOf[1]))
             catalog == engine[1].catalog
             r == trace.ranked[1]
             c(i) == TokenCount(tokens, catalog[i])
             top == IF \E i \in 1..Len(catalog) : c(i) > 0
                    THEN CHOOSE v \in {c(i) : i \in 1..Len(catalog)} :
                           \A i \in 1..Len(catalog) : c(i) <= v
                    ELSE 1
         IN  /\ r.ok => \A j \in 1..Len(r.rows) :
                          /\ r.rows[j].raw = c(r.rows[j].idx)
                          /\ r.rows[j].score = RoundHalfEven(1000 * c(r.rows[j].idx), top)
             /\ tokens = <<>> => (r.ok /\ \A j \in 1..Len(r.rows) : r.rows[j].score = 0)

\* C23: on the heuristic path (no client, or the call raised, or the reply
\* did not parse) the skills are, without duplicates, exactly the pattern
\* keywords that occur in the text as whole words in any letter case, in
\* lower case; the other fields are 'mid', ['Coding', 'Cognitive'] and
\* 'medium'.
C23_HeuristicSkills ==
    (trace.extract # None
       /\ trace.extract[1].service \in {"unused", "raised", "unparseable"})
      => LET v == trace.extract[1].value
             text == trace.text[1]
         IN  /\ v.kind = "dict"
             /\ \A i, j \in 1..Len(v.skills) : i # j => v.skills[i] # v.skills[j]
             /\ \A w \in SkillWords :
                   (\E i \in 1..Len(v.skills) : v.skills[i] = w)
                     <=> (\E j \in 1..Len(text) : LowerWord(text[j]) = w)
             /\ \A i \in 1..Len(v.skills) : v.skills[i] \in SkillWords
             /\ v.experience_level = "mid"
             /\ v.test_types = <<"Coding", "Cognitive">>
             /\ v.duration_preference = "medium"

\* C23 witness: the service call raised and the heuristic path found
\* 'python' in a text that has 'Python' and 'python'.
C23_Witness ==
    /\ trace.extract # None /\ trace.extract[1].service = "raised"
    /\ \E j \in 1..Len(trace.text[1]) : trace.text[1][j] = "Python"
    /\ \E i \in 1..Len(trace.extract[1].value.skills) :
          trace.extract[1].value.skills[i] = "python"
    /\ Len(trace.extract[1].value.skills) = 2

\* C24: a request with max_duration = 0 is answered only with rows whose
\* Duration is 0.
C24_ZeroMaxDurationFilters ==
    (Assembled /\ response[1].status = 200 /\ request[1].max_duration = Some(0))
      => \A i \in 1..Len(response[1].recommendations) :
           DurationOf(response[1].recommendations[i]) = IntCell(0)

\* The category filter in force for the request at hand: the caller's
\* test_types, or the suggested ones put in their place.
TestTypesInForce ==
    IF trace.extract = None THEN request[1].test_types
    ELSE Steer(request[1], trace.text[1], trace.extract[1]).test_types

\* Row i of the catalog passes every filter that is active for the request
\* at hand.
PassesFilters(i) ==
    LET row == engine[1].catalog[i]
        req == request[1]
        tt == TestTypesInForce
    IN  /\ (req.max_duration # None /\ req.max_duration[1] # 0)
             => (row.Duration.kind = "int" /\ row.Duration.val <= req.max_duration[1])
        /\ (tt # None /\ tt[1] # <<>>) => \E t \in 1..Len(tt[1]) : row.Type = tt[1][t]
        /\ req.remote_only => row.Remote = "Yes"

\* The first k elements of a sequence (k >= 0).
FirstK(seq, k) == [j \in 1..(IF k < Len(seq) THEN k ELSE Len(seq)) |-> seq[j]]

\* The candidates of the request at hand that pass every active filter, in
\* the candidates' order.
PassingCandidates == SelectSeq(trace.ranked[1].rows, LAMBDA r : PassesFilters(r.idx))

\* C25: with a search query and top_k >= 1 the ranker is asked for
\* min(2 * top_k, 50) candidates and the recommendations are the first
\* top_k, in rank order, of the candidates that pass every active filter:
\* at most top_k of them.
C25_FirstTopKOfFilteredCandidates ==
    (Assembled /\ response[1].status = 200 /\ RankerCalled /\ request[1].top_k >= 1)
      => /\ trace.requested = Some(IF 2 * request[1].top_k < 50
                                   THEN 2 * request[1].top_k ELSE 50)
         /\ response[1].recommendations = FirstK(PassingCandidates, request[1].top_k)
         /\ Len(response[1].recommendations) <= request[1].top_k

\* C25 witness: top_k = 1 and no recommendation, although a row of the
\* catalog passes the filters: it was not among the two candidates.
C25_Witness ==
    /\ Assembled /\ response[1].status = 200 /\ RankerCalled
    /\ request[1].top_k = 1
    /\ Len(trace.ranked[1].rows) = 2
    /\ response[1].recommendations = <<>>
    /\ \E i \in 1..Len(engine[1].catalog) : PassesFilters(i)

\* C26: get_recommendations takes its candidates from the head of the
\* catalog exactly when it has no search query; the ranker is not called,
\* the candidates are the first top_k rows in catalog order (top_k >= 0),
\* each with Relevance Score 100.0, and the recommendations are those of
\* them that pass the active filters.
C26_NoQueryTakesCatalogHead ==
    Assembled
      => LET none == SearchQueryOf = None \/ SearchQueryOf = Some(<<>>)
             n == Len(engine[1].catalog)
             k == request[1].top_k
         IN  /\ none <=> trace.strategy = "head"
             /\ none
                  => /\ trace.requested = None
                     /\ trace.ranked[1].ok
                     /\ (k >= 0)
                          => (trace.ranked[1].rows
                                = [j \in 1..(IF k < n THEN k ELSE n) |->
                                     [idx |-> j, raw |-> 0, score |-> 1000]])
                     /\ (k >= 0 /\ response[1].status = 200)
                          => (response[1].recommendations = PassingCandidates)

\* C26 witness: a url request without query whose extraction found no
\* skill, answered from the head of the catalog, a filter having removed a
\* candidate.
C26_Witness ==
    /\ Assembled /\ response[1].status = 200
    /\ trace.strategy = "head"
    /\ trace.extract # None /\ trace.extract[1].value.skills = <<>>
    /\ Len(response[1].recommendations) >= 1
    /\ Len(response[1].recommendations) < Len(trace.ranked[1].rows)
    /\ response[1].recommendations[1].score = 1000

\* The request at hand has a url, its page text was fetched and the
\* requirements extracted from it hold a skill.
SkillsExtracted ==
    /\ request[1].url # None /\ request[1].url[1] # <<>>
    /\ trace.text # None /\ trace.extract # None
    /\ trace.extract[1].value.skills # <<>>

\* C27: the search_query of the response is the caller's query as given,
\* unless skills were extracted from the url's text: then it is the skills
\* with one space between them, whatever the caller's query; and
\* job_requirements is null when no url is given or the fetch gave an
\* 'Error...' text.
C27_SearchQueryEcho ==
    (Assembled /\ response[1].status = 200)
      => /\ ~SkillsExtracted => (response[1].search_query = request[1].query)
         /\ SkillsExtracted
              => LET skills == trace.extract[1].value.skills
                     sq == response[1].search_query[1]
                 IN  /\ response[1].search_query # None
                     /\ Len(sq) = 2 * Len(skills) - 1
                     /\ \A i \in 1..Len(skills) : sq[2 * i - 1] = skills[i]
                     /\ \A i \in 1..(Len(skills) - 1) : sq[2 * i] = SP
         /\ (request[1].url = None \/ trace.text = None)
              => response[1].job_requirements = None

\* C27 witness: query and url both given, the response echoes the two
\* extracted skills and not the query.
C27_Witness ==
    /\ Assembled /\ response[1].status = 200
    /\ request[1].query = Some(<<"Python", SP, "sql">>)
    /\ SkillsExtracted
    /\ Len(trace.extract[1].value.skills) = 2
    /\ response[1].search_query # request[1].query

====
